---------------------------- MODULE Spec2Model ----------------------------
(***************************************************************************)
(* A model of scripts/convert_voc_to_yolo.py: the PascalVOC -> YOLO        *)
(* converter.  parse_voc_annotation and the label formatting are pure      *)
(* operators; process_set is modelled per annotation file in two steps     *)
(* (match+parse+copy, then write); convert_to_yolo per dataset             *)
(* subdirectory.                                                           *)
(*                                                                         *)
(* Numbers.  A Python float that results from one division of two small    *)
(* exactly representable operands is kept as the exact rational            *)
(* [num, den]; the IEEE-754 rounding of that division only matters where   *)
(* the text formatting has to break a decimal tie, and FloatDir computes   *)
(* its direction.  A value formatted with ".6f" is kept as the integer     *)
(* number of millionths it denotes.                                        *)
(***************************************************************************)
EXTENDS Integers, Sequences, FiniteSets, TLC

VARIABLES
    ann,        \* the annotation file given to parse_voc_annotation
    boxes,      \* what parse_voc_annotation returned for ann
    lines,      \* the label lines formatted from boxes
    ppc,        \* position of the parse/format pipeline
    \* ---- one call of process_set, and its repetition
    xml_files,    \* the list of annotation paths given to process_set
    xml_texts,    \* the annotation file at each path
    images_dir,   \* the images directory: file name -> bytes
    dest,         \* the destination directory: file name -> content
    idx,          \* position of the loop in xml_files
    spc,          \* "entry", "write" (image copied, label not yet written),
                  \* "done" (returned) or "aborted" (the parse error left it)
    pending,      \* image_path, boxes and label name of the entry being written
    run,          \* how many times process_set was called on these inputs
    initial_dest, \* dest before the first call
    first_dest,   \* dest when the first call stopped
    \* ---- convert_to_yolo
    voc,          \* the input tree: the dataset subdirectories of voc_dir
    val_split,    \* the validation fraction, a rational
    model,        \* the output tree: dataset -> its train and val directories
    pos,          \* position of the loop over subdirs
    cpc,          \* "loop", "done" (returned) or "aborted" (a parse error)
    crun,         \* how many times convert_to_yolo ran on this input
    listed,       \* xml_files of convert_to_yolo: the annotation paths found
    train_files,  \* the training prefix of the last shuffle
    val_files     \* the validation suffix of the last shuffle

pvars == <<ann, boxes, lines, ppc>>
svars == <<xml_files, xml_texts, images_dir, dest, idx, spc, pending, run,
           initial_dest, first_dest>>
cvars == <<voc, val_split, model, pos, cpc, crun, listed, train_files,
           val_files>>
vars  == <<pvars, svars, cvars>>

(***************************************************************************)
(* Bounds of the model                                                     *)
(***************************************************************************)
MaxDim   == 2   \* image widths/heights 1..MaxDim (plus the sizes of Dims)
MaxCoord == 2   \* pixel coordinates 0..MaxCoord (plus those of Coords)
MaxObjs  == 3   \* objects per annotation in SpecParse
MaxFiles == 3   \* length of the list given to process_set
MaxRuns  == 2   \* calls of process_set on the same inputs
MaxXml   == 3   \* annotation files in a dataset of SpecConv
MaxConv  == 2   \* runs of convert_to_yolo on the same input tree
MaxList  == 5   \* annotation files in the list split by SpecSplit

(***************************************************************************)
(* class_mapping and the labels met in annotation files                    *)
(***************************************************************************)
class_mapping == ("D00" :> 0) @@ ("D10" :> 1) @@ ("D20" :> 2) @@ ("D40" :> 3)

Labels == {"D00", "D10", "D20", "D40", "D43", "Repair"}

Million == 1000000

(***************************************************************************)
(* Floats                                                                  *)
(***************************************************************************)
Rat(n, d) == [num |-> n, den |-> d]

Abs(x) == IF x < 0 THEN -x ELSE x

RECURSIVE MulPow2Mod(_, _, _)
\* (n * 2^k) mod D
MulPow2Mod(n, k, D) ==
    IF k = 0 THEN n % D
    ELSE IF k >= 8 THEN MulPow2Mod((256 * (n % D)) % D, k - 8, D)
    ELSE MulPow2Mod((2 * (n % D)) % D, k - 1, D)

RECURSIVE FloorLog2Up(_, _, _)
\* for n >= D: the largest i with D * 2^i <= n
FloorLog2Up(n, D, i) ==
    IF 2 * D <= n THEN FloorLog2Up(n, 2 * D, i + 1) ELSE i

RECURSIVE FloorLog2Down(_, _, _)
\* for n < D: the smallest j with n * 2^j >= D
FloorLog2Down(n, D, j) ==
    IF n >= D THEN j ELSE FloorLog2Down(2 * n, D, j + 1)

\* The binary exponent e of n/D: 2^e <= n/D < 2^(e+1)  (n, D > 0)
BinExp(n, D) ==
    IF n >= D THEN FloorLog2Up(n, D, 0) ELSE 0 - FloorLog2Down(n, D, 0)

\* The sign of RN(n/D) - n/D, RN the round-to-nearest-even double (53 bits)
FloatDir(n, D) ==
    LET k   == 52 - BinExp(n, D)
        r2  == MulPow2Mod(n, k, 2 * D)
        r   == r2 % D
        odd == r2 >= D
    IN  IF r = 0 THEN 0
        ELSE IF 2 * r < D THEN -1
        ELSE IF 2 * r > D THEN 1
        ELSE IF odd THEN 1 ELSE -1

\* Mutant of Format6Nat: the digits after the sixth are cut off, not rounded
Format6NatTruncating(n, D) == (n * Million) \div D

\* f"{v:.6f}" of the double v = RN(n/D), n >= 0, D > 0, in millionths
Format6Nat(n, D) ==
    LET s   == n * Million
        lo  == s \div D
        rem == s % D
    IN  IF 2 * rem < D THEN lo
        ELSE IF 2 * rem > D THEN lo + 1
        ELSE LET dir == FloatDir(n, D)
             IN  IF dir < 0 THEN lo
                 ELSE IF dir > 0 THEN lo + 1
                 ELSE IF lo % 2 = 0 THEN lo ELSE lo + 1

Format6(q) ==
    IF q.num >= 0 THEN Format6Nat(q.num, q.den)
    ELSE 0 - Format6Nat(0 - q.num, q.den)

(***************************************************************************)
(* parse_voc_annotation                                                    *)
(*                                                                         *)
(* An annotation file is [valid, width, height, objects]: valid is FALSE   *)
(* for a file ET.parse rejects or whose size/width or size/height is       *)
(* missing; objects is the sequence of its object nodes in document order, *)
(* each [name, xmin, ymin, xmax, ymax].                                    *)
(***************************************************************************)
Widths  == (1..MaxDim) \cup {64, 640}
Heights == (1..MaxDim) \cup {480}
Coords  == (0..MaxCoord) \cup {100, 200, 300}

Object(l, x1, y1, x2, y2) ==
    [name |-> l, xmin |-> x1, ymin |-> y1, xmax |-> x2, ymax |-> y2]

Annotation(W, H, objs) ==
    [valid |-> TRUE, width |-> W, height |-> H, objects |-> objs]

Malformed == [valid |-> FALSE, width |-> 0, height |-> 0, objects |-> <<>>]

\* lines 41-47: one object's tuple (class_id, x_center, y_center, width, height)
YoloBox(obj, W, H) ==
    [class_id |-> class_mapping[obj.name],
     x_center |-> Rat(obj.xmin + obj.xmax, 2 * W),
     y_center |-> Rat(obj.ymin + obj.ymax, 2 * H),
     width    |-> Rat(obj.xmax - obj.xmin, W),
     height   |-> Rat(obj.ymax - obj.ymin, H)]

\* line 30: the test that keeps an object
InMapping(l) == l \in DOMAIN class_mapping

RECURSIVE ParseObjectsStopAtUnknown(_, _, _, _)
\* Mutant of ParseObjects: an unknown label ends the loop (break for continue)
ParseObjectsStopAtUnknown(objs, W, H, acc) ==
    IF objs = <<>> THEN acc
    ELSE LET obj == Head(objs)
         IN  IF ~InMapping(obj.name)
             THEN acc
             ELSE ParseObjectsStopAtUnknown(Tail(objs), W, H,
                                            Append(acc, YoloBox(obj, W, H)))

RECURSIVE ParseObjects(_, _, _, _)
\* lines 27-47: the loop over root.findall('object'), acc the list so far
ParseObjects(objs, W, H, acc) ==
    IF objs = <<>> THEN acc
    ELSE LET obj == Head(objs)
         IN  IF ~InMapping(obj.name)
             THEN ParseObjects(Tail(objs), W, H, acc)
             ELSE ParseObjects(Tail(objs), W, H, Append(acc, YoloBox(obj, W, H)))

\* lines 18-49; raised: ET.parse or root.find(...).text failed
parse_voc_annotation(a) ==
    IF ~a.valid THEN [raised |-> TRUE, boxes |-> <<>>]
    ELSE [raised |-> FALSE,
          boxes  |-> ParseObjects(a.objects, a.width, a.height, <<>>)]

\* line 164: one label line, its four floats in millionths
FormatLine(box) ==
    [class_id |-> box.class_id,
     x |-> Format6(box.x_center), y |-> Format6(box.y_center),
     w |-> Format6(box.width),    h |-> Format6(box.height)]

\* lines 162-164: the text of the label file
LabelText(bxs) == [i \in 1..Len(bxs) |-> FormatLine(bxs[i])]

(***************************************************************************)
(* SpecParse: parse_voc_annotation and the label formatting applied to     *)
(* annotation files drawn from bounded sets.                               *)
(***************************************************************************)
\* one object with a mapped label, every box over Coords, every size
BoxAnnotations ==
    { Annotation(W, H, <<Object(l, x1, y1, x2, y2)>>) :
        W \in Widths, H \in Heights, l \in DOMAIN class_mapping,
        x1 \in Coords, y1 \in Coords, x2 \in Coords, y2 \in Coords }

SampleBoxes == { <<100, 100, 300, 200>>, <<0, 0, 1, 1>> }

SampleObjects ==
    { Object(l, b[1], b[2], b[3], b[4]) : l \in Labels, b \in SampleBoxes }

RECURSIVE SeqsUpTo(_, _)
\* the sequences over S of length at most n
SeqsUpTo(S, n) ==
    IF n = 0 THEN {<<>>}
    ELSE LET shorter == SeqsUpTo(S, n - 1)
         IN  shorter \cup { Append(q, x) : q \in shorter, x \in S }

\* up to MaxObjs objects of any label, in any order
MultiAnnotations ==
    { Annotation(640, 480, objs) : objs \in SeqsUpTo(SampleObjects, MaxObjs) }

\* process_set is not called
SetIdle ==
    /\ xml_files = <<>> /\ xml_texts = <<>> /\ images_dir = <<>>
    /\ dest = <<>> /\ idx = 0 /\ spc = "idle" /\ pending = <<>>
    /\ run = 0 /\ initial_dest = <<>> /\ first_dest = <<>>

\* convert_to_yolo is not running
ConvIdle ==
    /\ voc = <<>> /\ val_split = Rat(1, 5) /\ model = <<>> /\ pos = 0
    /\ cpc = "idle" /\ crun = 0 /\ listed = <<>>
    /\ train_files = <<>> /\ val_files = <<>>

\* no annotation is being parsed on its own
ParseIdle == ann = Malformed /\ boxes = <<>> /\ lines = <<>> /\ ppc = "idle"

ParseInit ==
    /\ ann \in BoxAnnotations \cup MultiAnnotations \cup {Malformed}
    /\ boxes = <<>>
    /\ lines = <<>>
    /\ ppc = "start"
    /\ SetIdle
    /\ ConvIdle

\* line 148 of process_set: boxes = parse_voc_annotation(xml_file)
ParseStep ==
    /\ ppc = "start"
    /\ LET r == parse_voc_annotation(ann)
       IN  /\ boxes' = r.boxes
           /\ ppc' = IF r.raised THEN "raised" ELSE "parsed"
    /\ UNCHANGED <<ann, lines, svars, cvars>>

\* lines 149-151: an empty box list is skipped
SkipStep ==
    /\ ppc = "parsed"
    /\ boxes = <<>>
    /\ ppc' = "skipped"
    /\ UNCHANGED <<ann, boxes, lines, svars, cvars>>

\* lines 162-164: the label file is written
WriteStep ==
    /\ ppc = "parsed"
    /\ boxes # <<>>
    /\ lines' = LabelText(boxes)
    /\ ppc' = "written"
    /\ UNCHANGED <<ann, boxes, svars, cvars>>

ParseNext == ParseStep \/ SkipStep \/ WriteStep

SpecParse == ParseInit /\ [][ParseNext]_vars

(***************************************************************************)
(* Claims about parse_voc_annotation and the label line (SpecParse)        *)
(***************************************************************************)
\* the class table as the specification states it
StatedId(l) ==
    CASE l = "D00" -> 0 [] l = "D10" -> 1 [] l = "D20" -> 2 [] l = "D40" -> 3

StatedLabels == {"D00", "D10", "D20", "D40"}

\* the positions of the objects of a whose label the table holds
MappedAt(a) == { i \in 1..Len(a.objects) : a.objects[i].name \in StatedLabels }

\* the position of the k-th such object
KthMapped(a, k) ==
    CHOOSE i \in MappedAt(a) : Cardinality({ j \in MappedAt(a) : j <= i }) = k

Parsed == ppc \in {"parsed", "skipped", "written"}

\* C1: for every parseable annotation file parse_voc_annotation returns
\* exactly one box per object whose label is one of D00, D10, D20, D40, with
\* the id 0, 1, 2, 3 of that label, in document order of those objects;
\* objects with another label add no box and raise no error.
C1_OneBoxPerMappedObject ==
    /\ (ann.valid /\ ppc # "start") => ppc # "raised"
    /\ Parsed =>
         /\ Len(boxes) = Cardinality(MappedAt(ann))
         /\ \A k \in 1..Len(boxes) :
              LET obj == ann.objects[KthMapped(ann, k)]
              IN  /\ boxes[k].class_id = StatedId(obj.name)
                  /\ boxes[k].x_center = Rat(obj.xmin + obj.xmax, 2 * ann.width)
                  /\ boxes[k].width = Rat(obj.xmax - obj.xmin, ann.width)

\* C1 witness: three objects, the first and last of unknown labels around a
\* pothole and a crack that follow each other in the result
C1_Witness ==
    /\ ppc = "parsed"
    /\ Len(ann.objects) = 3
    /\ ann.objects[1].name = "D43"
    /\ ann.objects[2].name = "D40"
    /\ ann.objects[3].name = "D00"
    /\ Len(boxes) = 2
    /\ boxes[1].class_id = 3
    /\ boxes[2].class_id = 0

\* an annotation with exactly one object of a mapped label
SingleMapped(a) == a.valid /\ Cardinality(MappedAt(a)) = 1

TheObject(a) == a.objects[KthMapped(a, 1)]

\* v millionths is n/D rounded to six decimals: no further than half a
\* millionth from it
IsRounded(v, n, D) == 2 * Abs(v * D - n * Million) <= D

LineWritten == ppc = "written" /\ SingleMapped(ann)

LineIsFormula ==
    LET o == TheObject(ann)
        W == ann.width
        H == ann.height
        l == lines[1]
    IN  /\ Len(lines) = 1
        /\ l.class_id = StatedId(o.name)
        /\ IsRounded(l.x, o.xmin + o.xmax, 2 * W)
        /\ IsRounded(l.y, o.ymin + o.ymax, 2 * H)
        /\ IsRounded(l.w, o.xmax - o.xmin, W)
        /\ IsRounded(l.h, o.ymax - o.ymin, H)

LineNonNegative ==
    lines[1].x >= 0 /\ lines[1].y >= 0 /\ lines[1].w >= 0 /\ lines[1].h >= 0

ExampleAnnotation(a) ==
    /\ a.width = 640 /\ a.height = 480
    /\ TheObject(a).xmin = 100 /\ TheObject(a).ymin = 100
    /\ TheObject(a).xmax = 300 /\ TheObject(a).ymax = 200

\* C2 as stated: the single line's four values are each >= 0 and equal the
\* formula rounded to 6 decimals, for any annotation with one mapped object.
C2_AsStated == LineWritten => (LineIsFormula /\ LineNonNegative)

\* C2 amended: the single line's four values equal the stated formulas
\* rounded to 6 decimals (640x480 with box (100,100,300,200) gives
\* 0.312500 0.312500 0.312500 0.208333); they are each >= 0 when the box is
\* not inverted and not negative: 0 <= xmin <= xmax and 0 <= ymin <= ymax.
C2_LineIsRoundedFormula ==
    LineWritten =>
        /\ LineIsFormula
        /\ LET o == TheObject(ann)
           IN  (0 <= o.xmin /\ o.xmin <= o.xmax /\ 0 <= o.ymin /\ o.ymin <= o.ymax)
                   => LineNonNegative
        /\ ExampleAnnotation(ann) =>
               /\ lines[1].x = 312500 /\ lines[1].y = 312500
               /\ lines[1].w = 312500 /\ lines[1].h = 208333

\* C2 witness: the line of the 640x480 example has been written
C2_Witness ==
    LineWritten /\ ExampleAnnotation(ann) /\ Len(ann.objects) = 1
        /\ lines[1].h = 208333

\* the pixel coordinate recovered from a centre c and an extent e (both in
\* millionths) over dimension D differs from p by |r - 2000000 p| / 2000000,
\* r == (2c -+ e) D
LowResidue(c, e, D, p)  == Abs((2 * c - e) * D - 2 * Million * p)
HighResidue(c, e, D, p) == Abs((2 * c + e) * D - 2 * Million * p)

\* every recovered coordinate is within tol / 2000000 of the original
RoundTripWithin(tolX, tolY) ==
    LET o == TheObject(ann)
        l == lines[1]
    IN  /\ LowResidue(l.x, l.w, ann.width, o.xmin) <= tolX
        /\ HighResidue(l.x, l.w, ann.width, o.xmax) <= tolX
        /\ LowResidue(l.y, l.h, ann.height, o.ymin) <= tolY
        /\ HighResidue(l.y, l.h, ann.height, o.ymax) <= tolY

\* C8 as stated: reversing the formula on the written line recovers each
\* pixel coordinate within 1e-4, for every image size and box.
C8_AsStated == LineWritten => RoundTripWithin(200, 200)

\* C8 amended: reversing the formula on the written line recovers each x
\* coordinate within 0.75e-6 * W and each y coordinate within 0.75e-6 * H
\* pixels (the six-decimal rounding of centre and extent), hence within
\* 1e-4 for every image of at most 133 x 133 pixels.
C8_RoundTripWithinRounding ==
    LineWritten =>
        /\ 2 * LowResidue(lines[1].x, lines[1].w, ann.width, TheObject(ann).xmin)
              <= 3 * ann.width
        /\ 2 * HighResidue(lines[1].x, lines[1].w, ann.width, TheObject(ann).xmax)
              <= 3 * ann.width
        /\ 2 * LowResidue(lines[1].y, lines[1].h, ann.height, TheObject(ann).ymin)
              <= 3 * ann.height
        /\ 2 * HighResidue(lines[1].y, lines[1].h, ann.height, TheObject(ann).ymax)
              <= 3 * ann.height
        /\ (ann.width <= 133 /\ ann.height <= 133) => RoundTripWithin(200, 200)

\* C8 witness: a written line of a 64-pixel-wide image whose width 1/64 does
\* not fit six decimals, recovered within 1e-4
C8_Witness ==
    /\ LineWritten
    /\ ann.width = 64 /\ ann.height = 2
    /\ TheObject(ann).xmin = 1 /\ TheObject(ann).xmax = 2
    /\ lines[1].w = 15625 /\ lines[1].x = 23438
    /\ RoundTripWithin(200, 200)

(***************************************************************************)
(* process_set                                                             *)
(*                                                                         *)
(* An annotation path is <<folder, stem>> (the file folder/stem.xml); a    *)
(* file of the images or the destination directory is <<stem, ext>>.  A    *)
(* directory is the function from the names of its files to their content. *)
(***************************************************************************)
NoFiles == <<>>

Stem(xml_file) == xml_file[2]               \* lines 132-133

Extensions == <<".jpg", ".jpeg", ".png">>   \* line 137

RECURSIVE FirstImage(_, _, _)
\* lines 136-141: the first extension whose file exists, or NoFiles
FirstImage(stem, imgs, i) ==
    IF i > Len(Extensions) THEN NoFiles
    ELSE IF <<stem, Extensions[i]>> \in DOMAIN imgs THEN <<stem, Extensions[i]>>
    ELSE FirstImage(stem, imgs, i + 1)

\* lines 154-156: shutil.copy(image_path, output_dir/basename(image_path))
CopyImage(d, imgs, image_path) == (image_path :> imgs[image_path]) @@ d

\* Mutant of WriteLabel: the label file is opened for appending
WriteLabelAppending(d, stem, bxs) ==
    LET old == IF <<stem, ".txt">> \in DOMAIN d THEN d[<<stem, ".txt">>] ELSE <<>>
    IN  (<<stem, ".txt">> :> (old \o LabelText(bxs))) @@ d

\* lines 158-164: open(label_path, 'w') and one line per box
WriteLabel(d, stem, bxs) == (<<stem, ".txt">> :> LabelText(bxs)) @@ d

Outcome(o, d, image, bxs) ==
    [outcome |-> o, dest |-> d, image_path |-> image, boxes |-> bxs]

\* Mutant of ProcessEntry: the image is copied before the annotation is parsed
ProcessEntryCopyFirst(xml_file, texts, imgs, d) ==
    LET image_path == FirstImage(Stem(xml_file), imgs, 1)
    IN  IF image_path = NoFiles THEN Outcome("no_image", d, NoFiles, <<>>)
        ELSE LET r == parse_voc_annotation(texts[xml_file])
                 c == CopyImage(d, imgs, image_path)
             IN  IF r.raised THEN Outcome("raised", c, NoFiles, <<>>)
                 ELSE IF r.boxes = <<>> THEN Outcome("no_boxes", c, NoFiles, <<>>)
                 ELSE Outcome("copied", c, image_path, r.boxes)

\* Mutant of ProcessEntry: an annotation without boxes is not skipped
ProcessEntryKeepsEmpty(xml_file, texts, imgs, d) ==
    LET image_path == FirstImage(Stem(xml_file), imgs, 1)
    IN  IF image_path = NoFiles THEN Outcome("no_image", d, NoFiles, <<>>)
        ELSE LET r == parse_voc_annotation(texts[xml_file])
             IN  IF r.raised THEN Outcome("raised", d, NoFiles, <<>>)
                 ELSE Outcome("copied", CopyImage(d, imgs, image_path),
                              image_path, r.boxes)

\* Mutant of ProcessEntry: a parse error is caught and the file skipped
ProcessEntryCatches(xml_file, texts, imgs, d) ==
    LET image_path == FirstImage(Stem(xml_file), imgs, 1)
    IN  IF image_path = NoFiles THEN Outcome("no_image", d, NoFiles, <<>>)
        ELSE LET r == parse_voc_annotation(texts[xml_file])
             IN  IF r.raised \/ r.boxes = <<>>
                 THEN Outcome("no_boxes", d, NoFiles, <<>>)
                 ELSE Outcome("copied", CopyImage(d, imgs, image_path),
                              image_path, r.boxes)

\* lines 131-156: one annotation file up to the copy of its image
ProcessEntry(xml_file, texts, imgs, d) ==
    LET image_path == FirstImage(Stem(xml_file), imgs, 1)
    IN  IF image_path = NoFiles THEN Outcome("no_image", d, NoFiles, <<>>)
        ELSE LET r == parse_voc_annotation(texts[xml_file])
             IN  IF r.raised THEN Outcome("raised", d, NoFiles, <<>>)
                 ELSE IF r.boxes = <<>> THEN Outcome("no_boxes", d, NoFiles, <<>>)
                 ELSE Outcome("copied", CopyImage(d, imgs, image_path),
                              image_path, r.boxes)

RECURSIVE process_set(_, _, _, _)
\* lines 128-164: the whole call; raised when a parse error left it
process_set(files, texts, imgs, d) ==
    IF files = <<>> THEN [raised |-> FALSE, dest |-> d]
    ELSE LET e == ProcessEntry(Head(files), texts, imgs, d)
         IN  IF e.outcome = "raised" THEN [raised |-> TRUE, dest |-> e.dest]
             ELSE IF e.outcome = "copied"
                  THEN process_set(Tail(files), texts, imgs,
                                   WriteLabel(e.dest, Stem(Head(files)), e.boxes))
                  ELSE process_set(Tail(files), texts, imgs, e.dest)

(***************************************************************************)
(* SpecSet: process_set called on a list of annotation files, then called  *)
(* again on the same unchanged inputs.                                     *)
(***************************************************************************)
PathA    == <<"xmls", "a">>
PathB    == <<"xmls", "b">>
PathSubA == <<"xmls/sub", "a">>      \* same base name as PathA
Paths    == {PathA, PathB, PathSubA}

OneBox    == Annotation(640, 480, <<Object("D00", 100, 100, 300, 200)>>)
OtherBox  == Annotation(640, 480, <<Object("D40", 0, 0, 1, 1)>>)
ThreeObjs == Annotation(640, 480, <<Object("D43", 0, 0, 1, 1),
                                    Object("D40", 100, 100, 300, 200),
                                    Object("D10", 0, 0, 1, 1)>>)
Unmapped  == Annotation(640, 480, <<Object("D43", 100, 100, 300, 200),
                                    Object("Repair", 0, 0, 1, 1)>>)
NoObjects == Annotation(640, 480, <<>>)

TextChoices ==
    { (PathA :> ta) @@ (PathB :> tb) @@ (PathSubA :> ts) :
        ta \in {OneBox, Unmapped, Malformed},
        tb \in {ThreeObjs, NoObjects, Malformed},
        ts \in {OtherBox, Unmapped} }

Bytes(f) == <<"bytes of", f>>

Dir(names) == [f \in names |-> Bytes(f)]

ImageChoices ==
    { Dir(na \cup nb) :
        na \in { {}, {<<"a", ".jpg">>}, {<<"a", ".jpeg">>, <<"a", ".png">>} },
        nb \in { {}, {<<"b", ".png">>} } }

\* an empty destination, or one holding an image an interrupted run left
DestChoices == { NoFiles, Dir({<<"b", ".png">>}) }

SetInit ==
    /\ xml_files \in SeqsUpTo(Paths, MaxFiles)
    /\ xml_texts \in TextChoices
    /\ images_dir \in ImageChoices
    /\ dest \in DestChoices
    /\ initial_dest = dest
    /\ first_dest = NoFiles
    /\ idx = 1
    /\ spc = "entry"
    /\ pending = <<>>
    /\ run = 1
    /\ ParseIdle
    /\ ConvIdle

\* lines 130-156: the next annotation file, up to the copy of its image
EntryStep ==
    /\ spc = "entry"
    /\ idx <= Len(xml_files)
    /\ LET e == ProcessEntry(xml_files[idx], xml_texts, images_dir, dest)
       IN  /\ dest' = e.dest
           /\ spc' = CASE e.outcome = "raised" -> "aborted"
                       [] e.outcome = "copied" -> "write"
                       [] OTHER -> "entry"
           /\ idx' = IF e.outcome \in {"no_image", "no_boxes"} THEN idx + 1 ELSE idx
           /\ pending' = IF e.outcome = "copied"
                         THEN [image_path |-> e.image_path, boxes |-> e.boxes]
                         ELSE <<>>
    /\ UNCHANGED <<xml_files, xml_texts, images_dir, run, initial_dest,
                   first_dest, pvars, cvars>>

\* lines 158-164: the label file of the entry whose image was copied
LabelStep ==
    /\ spc = "write"
    /\ dest' = WriteLabel(dest, Stem(xml_files[idx]), pending.boxes)
    /\ pending' = <<>>
    /\ idx' = idx + 1
    /\ spc' = "entry"
    /\ UNCHANGED <<xml_files, xml_texts, images_dir, run, initial_dest,
                   first_dest, pvars, cvars>>

\* line 130: the list is exhausted and process_set returns
ReturnStep ==
    /\ spc = "entry"
    /\ idx > Len(xml_files)
    /\ spc' = "done"
    /\ UNCHANGED <<xml_files, xml_texts, images_dir, dest, idx, pending, run,
                   initial_dest, first_dest, pvars, cvars>>

\* process_set is called again with the same arguments
CallAgain ==
    /\ spc \in {"done", "aborted"}
    /\ run < MaxRuns
    /\ first_dest' = IF run = 1 THEN dest ELSE first_dest
    /\ run' = run + 1
    /\ idx' = 1
    /\ spc' = "entry"
    /\ pending' = <<>>
    /\ UNCHANGED <<xml_files, xml_texts, images_dir, dest, initial_dest, pvars,
                   cvars>>

SetNext == EntryStep \/ LabelStep \/ ReturnStep \/ CallAgain

SpecSet == SetInit /\ [][SetNext]_vars

(***************************************************************************)
(* Claims about process_set (SpecSet)                                      *)
(***************************************************************************)
AtEntry == spc = "entry" /\ idx <= Len(xml_files)

CurrentText == xml_texts[xml_files[idx]]

\* some image stem.jpg, stem.jpeg or stem.png is in directory d
ImageIn(d, stem) ==
    \E e \in {".jpg", ".jpeg", ".png"} : <<stem, e>> \in DOMAIN d

Stopped == spc \in {"done", "aborted"}

\* C3: an annotation whose objects all have labels outside the class mapping
\* (or that has no objects) makes process_set write nothing for that entry,
\* image present or not, in the first call and in a repeated one, and
\* processing goes on with the next annotation.
C3_EmptyAnnotationWritesNothing ==
    [][ (AtEntry /\ CurrentText.valid /\ MappedAt(CurrentText) = {})
          => (dest' = dest /\ spc' = "entry" /\ idx' = idx + 1) ]_vars

\* C3 witness: in the repeated call, the first file (only unmapped labels,
\* its image a.jpg present) has been passed and the destination is empty
C3_Witness ==
    /\ run = 2 /\ spc = "entry" /\ idx = 2 /\ Len(xml_files) >= 2
    /\ xml_files[1] = PathA
    /\ xml_texts[PathA] = Unmapped
    /\ <<"a", ".jpg">> \in DOMAIN images_dir
    /\ dest = NoFiles

\* C6 as stated: a file that is not valid XML or lacks size/width or
\* size/height aborts the run, whatever else is true of that file; so no
\* call returns normally from a list that holds such a file.
C6_AsStated ==
    spc = "done" => \A i \in 1..Len(xml_files) : xml_texts[xml_files[i]].valid

\* C6 amended: when process_set reaches a file that is not valid XML or
\* lacks size/width or size/height and that HAS a matching image, the parse
\* error is not caught and aborts the call with nothing written for the
\* file, and no later file is processed; such a file WITHOUT a matching
\* image is skipped before it is parsed and the call goes on.
C6_MalformedWithImageAborts ==
    [][ /\ (AtEntry /\ ~CurrentText.valid) =>
             IF ImageIn(images_dir, Stem(xml_files[idx]))
             THEN spc' = "aborted" /\ idx' = idx /\ dest' = dest
             ELSE spc' = "entry" /\ idx' = idx + 1 /\ dest' = dest
        /\ spc = "aborted" => (idx' = 1 /\ run' = run + 1 /\ dest' = dest)
      ]_vars

\* C6 witness: the call stopped at the malformed second file of three; the
\* first was converted and the third, which would overwrite a.txt, was not
C6_Witness ==
    /\ spc = "aborted" /\ idx = 2 /\ run = 1
    /\ xml_files = <<PathA, PathB, PathSubA>>
    /\ xml_texts[PathB] = Malformed
    /\ xml_texts[PathSubA] = OtherBox
    /\ <<"a", ".txt">> \in DOMAIN dest
    /\ dest[<<"a", ".txt">>] = LabelText(parse_voc_annotation(OneBox).boxes)

\* C7: process_set is idempotent: a second call with the same unchanged
\* inputs leaves the destination exactly as the first call left it.
C7_Idempotent == (run >= 2 /\ Stopped) => dest = first_dest

\* C7 witness: the second call returned; two paths share the base name a
C7_Witness ==
    /\ run = 2 /\ spc = "done"
    /\ xml_files = <<PathA, PathSubA, PathB>>
    /\ xml_texts[PathA] = OneBox /\ xml_texts[PathSubA] = OtherBox
    /\ Cardinality(DOMAIN dest) = 4

\* the images of d that have no label file with at least one line
Orphans(d) ==
    { f \in DOMAIN d :
        /\ f[2] \in {".jpg", ".jpeg", ".png"}
        /\ ~(<<f[1], ".txt">> \in DOMAIN d /\ Len(d[<<f[1], ".txt">>]) >= 1) }

\* the label files of d that have no image
Unpaired(d) == { f \in DOMAIN d : f[2] = ".txt" /\ ~ImageIn(d, f[1]) }

\* C9: starting from an empty destination, whenever process_set stops
\* (returning, or aborting on a parse error) every image has a label file of
\* the same base name with at least one line and every label has its image;
\* an image without a label exists only between the image copy and the
\* label write of the same annotation.
C9_ImagesAndLabelsPaired ==
    initial_dest = NoFiles =>
        /\ Unpaired(dest) = {}
        /\ spc # "write" => Orphans(dest) = {}
        /\ spc = "write" =>
             /\ Orphans(dest) \subseteq {pending.image_path}
             /\ pending.image_path[1] = Stem(xml_files[idx])

\* C9 witness: the call aborted on a later file after it had written output
C9_Witness ==
    /\ initial_dest = NoFiles /\ run = 1
    /\ spc = "aborted" /\ idx = 3
    /\ Cardinality(DOMAIN dest) = 2

(***************************************************************************)
(* convert_to_yolo                                                         *)
(*                                                                         *)
(* A dataset subdirectory is [has_train, has_images, images, folders,      *)
(* texts]: whether it holds a train folder and train/images, the files of  *)
(* train/images, the other folders of train (name -> the paths of the .xml *)
(* files below it, at any depth) and the annotation file at each path.     *)
(* val_split is the decimal fraction given on the command line; line 116   *)
(* computes with the double nearest to it.                                 *)
(***************************************************************************)
AnnotationDirNamesWithLabels ==
    <<"annotations", "annotation", "Annotations", "xmls", "labels">>

AnnotationDirNames == <<"annotations", "annotation", "Annotations", "xmls">>  \* line 91

RECURSIVE FirstAnnotationDir(_, _)
\* lines 90-95: the first candidate folder that exists, or "" (None)
FirstAnnotationDir(layout, i) ==
    IF i > Len(AnnotationDirNames) THEN ""
    ELSE IF AnnotationDirNames[i] \in DOMAIN layout.folders
         THEN AnnotationDirNames[i]
         ELSE FirstAnnotationDir(layout, i + 1)

\* lines 82 and 97: the dataset is not skipped before the files are listed
HasInputDirs(layout) ==
    layout.has_train /\ layout.has_images /\ FirstAnnotationDir(layout, 1) # ""

\* lines 105-106: glob(annotation_dir/**/*.xml, recursive)
GlobXml(layout) ==
    IF HasInputDirs(layout)
    THEN layout.folders[FirstAnnotationDir(layout, 1)]
    ELSE {}

\* random.shuffle can leave the list in any order
Orders(S) ==
    { q \in [1..Cardinality(S) -> S] :
        \A i, j \in 1..Cardinality(S) : q[i] = q[j] => i = j }

(***************************************************************************)
(* Double arithmetic of line 116.  A natural number of any size is the    *)
(* sequence of its digits to the base 2^15, least significant first,       *)
(* without leading zeros; a double is [neg, m, k], the number              *)
(* (-1)^neg * m / 2^k with m such a natural of at most 53 bits.            *)
(***************************************************************************)
Base == 2^15

RECURSIVE Norm(_)
Norm(a) ==
    IF a = <<>> THEN a
    ELSE IF a[Len(a)] = 0 THEN Norm(SubSeq(a, 1, Len(a) - 1)) ELSE a

Nat2Big(n) == Norm(<<n % Base, (n \div Base) % Base, n \div (Base * Base)>>)

\* the value of a natural below 2^30
Big2Nat(a) ==
    IF Len(a) = 0 THEN 0 ELSE IF Len(a) = 1 THEN a[1] ELSE a[1] + Base * a[2]

Digit(a, i) == IF i <= Len(a) THEN a[i] ELSE 0

RECURSIVE MulSmallFrom(_, _, _, _)
MulSmallFrom(a, c, i, carry) ==
    IF i > Len(a) THEN (IF carry = 0 THEN <<>> ELSE <<carry>>)
    ELSE LET t == a[i] * c + carry
         IN  <<t % Base>> \o MulSmallFrom(a, c, i + 1, t \div Base)

\* a * c for 0 <= c <= 2^15
MulSmall(a, c) == Norm(MulSmallFrom(a, c, 1, 0))

RECURSIVE DivSmallFrom(_, _, _, _)
DivSmallFrom(a, c, i, rem) ==
    IF i = 0 THEN [q |-> <<>>, r |-> rem]
    ELSE LET cur  == rem * Base + a[i]
             rest == DivSmallFrom(a, c, i - 1, cur % c)
         IN  [q |-> Append(rest.q, cur \div c), r |-> rest.r]

\* quotient and remainder of a by c, 0 < c <= 2^15
DivSmall(a, c) ==
    LET d == DivSmallFrom(a, c, Len(a), 0) IN [q |-> Norm(d.q), r |-> d.r]

RECURSIVE AddFrom(_, _, _, _)
AddFrom(a, b, i, carry) ==
    IF i > Len(a) /\ i > Len(b) THEN (IF carry = 0 THEN <<>> ELSE <<carry>>)
    ELSE LET t == Digit(a, i) + Digit(b, i) + carry
         IN  <<t % Base>> \o AddFrom(a, b, i + 1, t \div Base)

Add(a, b) == AddFrom(a, b, 1, 0)

RECURSIVE SubFrom(_, _, _, _)
SubFrom(a, b, i, borrow) ==
    IF i > Len(a) THEN <<>>
    ELSE LET t == a[i] - Digit(b, i) - borrow
         IN  <<t % Base>> \o SubFrom(a, b, i + 1, IF t < 0 THEN 1 ELSE 0)

\* a - b for a >= b
Sub(a, b) == Norm(SubFrom(a, b, 1, 0))

RECURSIVE LessFrom(_, _, _)
LessFrom(a, b, i) ==
    IF i = 0 THEN FALSE
    ELSE IF a[i] # b[i] THEN a[i] < b[i]
    ELSE LessFrom(a, b, i - 1)

Less(a, b) ==
    IF Len(a) # Len(b) THEN Len(a) < Len(b) ELSE LessFrom(a, b, Len(a))

Zeros(n) == [i \in 1..n |-> 0]

\* a * 2^k and floor(a / 2^k)
ShiftLeft(a, k) ==
    IF a = <<>> THEN a ELSE Zeros(k \div 15) \o MulSmall(a, 2^(k % 15))
ShiftRight(a, k) ==
    IF k \div 15 >= Len(a) THEN <<>>
    ELSE DivSmall(SubSeq(a, k \div 15 + 1, Len(a)), 2^(k % 15)).q

\* the number of bits of a
BitLen(a) ==
    IF a = <<>> THEN 0 ELSE 15 * (Len(a) - 1) + BinExp(a[Len(a)], 1) + 1

IsOdd(a) == a # <<>> /\ a[1] % 2 = 1

\* m / 2^k rounded to 53 significant bits, to nearest, ties to even
RoundTo53(m, k) ==
    LET sh == BitLen(m) - 53
    IN  IF sh <= 0 THEN [m |-> m, k |-> k]
        ELSE LET q      == ShiftRight(m, sh)
                 guard  == IsOdd(ShiftRight(m, sh - 1))
                 sticky == ShiftLeft(ShiftRight(m, sh - 1), sh - 1) # m
                 up     == guard /\ (sticky \/ IsOdd(q))
             IN  [m |-> IF up THEN Add(q, <<1>>) ELSE q, k |-> k - sh]

Double(neg, r) == [neg |-> neg, m |-> r.m, k |-> r.k]

\* float("p/q"): the double nearest to p/q, q > 0
FloatOf(p, q) ==
    IF p = 0 THEN [neg |-> FALSE, m |-> <<>>, k |-> 0]
    ELSE LET n  == IF p < 0 THEN 0 - p ELSE p
             k  == 52 - BinExp(n, q)
             d  == DivSmall(ShiftLeft(Nat2Big(n), k), q)
             up == 2 * d.r > q \/ (2 * d.r = q /\ IsOdd(d.q))
         IN  [neg |-> p < 0, m |-> IF up THEN Add(d.q, <<1>>) ELSE d.q, k |-> k]

\* 1 - v
OneMinus(v) ==
    LET one == ShiftLeft(<<1>>, v.k)
    IN  IF v.neg THEN Double(FALSE, RoundTo53(Add(one, v.m), v.k))
        ELSE IF Less(one, v.m) THEN Double(TRUE, RoundTo53(Sub(v.m, one), v.k))
        ELSE Double(FALSE, RoundTo53(Sub(one, v.m), v.k))

\* n * v for an integer 0 <= n <= 2^15
TimesInt(n, v) == Double(v.neg, RoundTo53(MulSmall(v.m, n), v.k))

\* int(v): truncation towards zero
IntOf(v) ==
    LET a == Big2Nat(ShiftRight(v.m, v.k)) IN IF v.neg THEN 0 - a ELSE a

\* line 116: int(len(xml_files) * (1 - val_split))
TrainCount(n, v) == IntOf(TimesInt(n, OneMinus(FloatOf(v.num, v.den))))

\* the index a Python slice bound k denotes in a list of length n
SliceBound(n, k) ==
    IF k < 0 THEN (IF n + k < 0 THEN 0 ELSE n + k)
    ELSE IF k > n THEN n ELSE k

\* lines 117-118: xml_files[:k] and xml_files[k:]
SliceTo(q, k)   == SubSeq(q, 1, SliceBound(Len(q), k))
SliceFrom(q, k) == SubSeq(q, SliceBound(Len(q), k) + 1, Len(q))

EmptyOut == [train |-> NoFiles, val |-> NoFiles]

Converted(st, o, tf, vf) ==
    [status |-> st, out |-> o, train_files |-> tf, val_files |-> vf]

\* lines 69-126: the loop body for one dataset; out its output directories
\* after the makedirs of lines 76-77, shuffled the list after line 115
ConvertDataset(layout, out, shuffled, v) ==
    IF ~HasInputDirs(layout) \/ GlobXml(layout) = {}
    THEN Converted("skipped", out, <<>>, <<>>)
    ELSE LET train_count == TrainCount(Len(shuffled), v)
             tf == SliceTo(shuffled, train_count)
             vf == SliceFrom(shuffled, train_count)
             t  == process_set(tf, layout.texts, layout.images, out.train)
         IN  IF t.raised
             THEN Converted("raised", [out EXCEPT !.train = t.dest], tf, vf)
             ELSE LET w == process_set(vf, layout.texts, layout.images, out.val)
                  IN  Converted(IF w.raised THEN "raised" ELSE "processed",
                                [train |-> t.dest, val |-> w.dest], tf, vf)

(***************************************************************************)
(* SpecConv: convert_to_yolo run over an input tree of two datasets, and   *)
(* run again over the same unchanged tree into the same model root.        *)
(***************************************************************************)
StemNames == <<"a", "b", "c", "d", "e", "f">>

Files(folder, n) == { <<folder, StemNames[i]>> : i \in 1..n }

AllImages == Dir({ <<StemNames[i], ".jpg">> : i \in 1..Len(StemNames) })

Layout(t, i, folders, texts) ==
    [has_train |-> t, has_images |-> i,
     images |-> IF i THEN AllImages ELSE NoFiles,
     folders |-> folders, texts |-> texts]

AllOneBox(S) == [f \in S |-> OneBox]

NoTrainFolder == Layout(FALSE, FALSE, <<>>, <<>>)
NoImagesFolder ==
    Layout(TRUE, FALSE, "xmls" :> Files("xmls", 2), AllOneBox(Files("xmls", 2)))
\* the .xml files lie in a folder that is none of the four names
NoAnnotationFolder ==
    Layout(TRUE, TRUE, "labels" :> Files("labels", 2), AllOneBox(Files("labels", 2)))
NoXmlFiles == Layout(TRUE, TRUE, "annotations" :> {}, <<>>)
Full(n) ==
    Layout(TRUE, TRUE, "xmls" :> Files("xmls", n), AllOneBox(Files("xmls", n)))
\* two files of the same base name, one of them in a subfolder
Nested ==
    Layout(TRUE, TRUE,
           "Annotations" :> {<<"Annotations", "a">>, <<"Annotations/sub", "a">>},
           (<<"Annotations", "a">> :> OneBox) @@ (<<"Annotations/sub", "a">> :> OtherBox))
\* two candidate folders: annotation comes before xmls
TwoFolders ==
    Layout(TRUE, TRUE,
           ("xmls" :> Files("xmls", 2)) @@ ("annotation" :> Files("annotation", 1)),
           AllOneBox(Files("xmls", 2) \cup Files("annotation", 1)))
\* the second of two files is not valid XML
Broken ==
    Layout(TRUE, TRUE, "xmls" :> Files("xmls", 2),
           (<<"xmls", "a">> :> OneBox) @@ (<<"xmls", "b">> :> Malformed))

Layouts ==
    {NoTrainFolder, NoImagesFolder, NoAnnotationFolder, NoXmlFiles, Nested,
     TwoFolders, Broken} \cup { Full(n) : n \in 1..MaxXml }

\* --val_split: the default 0.2, quarters, and values outside (0,1)
ConvSplits ==
    { Rat(1, 5), Rat(-2, 4), Rat(0, 4), Rat(1, 4), Rat(2, 4), Rat(3, 4),
      Rat(4, 4), Rat(6, 4) }

\* the input trees: any dataset, followed by one of two
Trees == { <<first, second>> : first \in Layouts,
                               second \in {Full(2), NoImagesFolder} }

ConvInit ==
    /\ voc \in Trees
    /\ val_split \in ConvSplits
    /\ model = <<>>
    /\ pos = 1
    /\ cpc = "loop"
    /\ crun = 1
    /\ listed = <<>>
    /\ train_files = <<>>
    /\ val_files = <<>>
    /\ ParseIdle
    /\ SetIdle

\* lines 73-77: os.makedirs(..., exist_ok=True) of train_dir and val_dir
OutDirs(m, name) == IF name \in DOMAIN m THEN m[name] ELSE EmptyOut

\* lines 69-126: one iteration of the loop over subdirs
ConvertSubdir ==
    /\ cpc = "loop"
    /\ pos <= Len(voc)
    /\ \E shuffled \in Orders(GlobXml(voc[pos])) :
         LET r == ConvertDataset(voc[pos], OutDirs(model, pos), shuffled, val_split)
         IN  /\ model' = (pos :> r.out) @@ model
             /\ cpc' = IF r.status = "raised" THEN "aborted" ELSE "loop"
             /\ pos' = IF r.status = "raised" THEN pos ELSE pos + 1
             /\ listed' = shuffled
             /\ train_files' = r.train_files
             /\ val_files' = r.val_files
    /\ UNCHANGED <<voc, val_split, crun, pvars, svars>>

\* line 69: the loop over subdirs ends and convert_to_yolo returns
ConvertReturn ==
    /\ cpc = "loop"
    /\ pos > Len(voc)
    /\ cpc' = "done"
    /\ UNCHANGED <<voc, val_split, model, pos, crun, listed, train_files,
                   val_files, pvars, svars>>

\* the script is run again on the same input tree and model root
ConvertAgain ==
    /\ cpc \in {"done", "aborted"}
    /\ crun < MaxConv
    /\ crun' = crun + 1
    /\ pos' = 1
    /\ cpc' = "loop"
    /\ listed' = <<>>
    /\ train_files' = <<>>
    /\ val_files' = <<>>
    /\ UNCHANGED <<voc, val_split, model, pvars, svars>>

ConvNext == ConvertSubdir \/ ConvertReturn \/ ConvertAgain

SpecConv == ConvInit /\ [][ConvNext]_vars

(***************************************************************************)
(* SpecSplit: lines 105-118 of convert_to_yolo for one dataset: the list   *)
(* of the N annotation files found is shuffled and split.                  *)
(***************************************************************************)
\* --val_split: the tenths and quarters from -0.5 to 1.5
ValSplits == { Rat(p, 10) : p \in -5..15 } \cup { Rat(p, 4) : p \in -2..6 }

\* the paths glob returns for a folder of n annotation files
Listing(n) == [i \in 1..n |-> <<"xmls", StemNames[i]>>]

SplitInit ==
    /\ listed \in { Listing(n) : n \in 1..MaxList }
    /\ val_split \in ValSplits
    /\ voc = <<>>
    /\ model = <<>>
    /\ pos = 0
    /\ cpc = "listed"
    /\ crun = 0
    /\ train_files = <<>>
    /\ val_files = <<>>
    /\ ParseIdle
    /\ SetIdle

\* lines 115-118: shuffle, train_count, the two slices
SplitStep ==
    /\ cpc = "listed"
    /\ \E shuffled \in Orders({ listed[i] : i \in 1..Len(listed) }) :
         LET train_count == TrainCount(Len(shuffled), val_split)
         IN  /\ listed' = shuffled
             /\ train_files' = SliceTo(shuffled, train_count)
             /\ val_files' = SliceFrom(shuffled, train_count)
    /\ cpc' = "split"
    /\ UNCHANGED <<voc, val_split, model, pos, crun, pvars, svars>>

SplitNext == SplitStep

SpecSplit == SplitInit /\ [][SplitNext]_vars

(***************************************************************************)
(* Claims about convert_to_yolo (SpecSplit, SpecConv)                      *)
(***************************************************************************)
InUnitInterval(v) == 0 < v.num /\ v.num < v.den

\* C4: for a dataset with N >= 1 annotation files, the training set gets
\* floor(N * (1 - val_split)) files and the validation set the other
\* N - train_count when 0 < val_split < 1; the two lists together hold the
\* N files for every val_split, also outside (0,1).
C4_SplitSizes ==
    cpc = "split" =>
        LET N == Len(listed)
        IN  /\ Len(train_files) + Len(val_files) = N
            /\ train_files \o val_files = listed
            /\ InUnitInterval(val_split) =>
                 /\ Len(train_files) = (N * (val_split.den - val_split.num))
                                          \div val_split.den
                 /\ Len(val_files) = N - Len(train_files)

RecognizedNames == {"annotations", "annotation", "Annotations", "xmls"}

\* the dataset lacks the images folder or every recognized annotation folder
LacksInput(layout) ==
    \/ ~layout.has_images
    \/ \A name \in RecognizedNames : name \notin DOMAIN layout.folders

\* C5 as stated: a dataset that lacks the images folder or every recognized
\* annotation folder gets no output under the model root: nothing in its
\* output subdirectory.
C5_AsStated == \A d \in DOMAIN model : ~LacksInput(voc[d])

\* C5 amended: a dataset that lacks the images folder or every recognized
\* annotation folder is skipped: convert_to_yolo raises nothing, writes no
\* file for it and goes on to the next dataset; its output subdirectory
\* holds only the empty train and val directories, which are created before
\* the input folders are looked for.
C5_SkippedDatasetGetsEmptyDirs ==
    [][ (cpc = "loop" /\ pos <= Len(voc) /\ LacksInput(voc[pos]))
          => /\ cpc' = "loop"
             /\ pos' = pos + 1
             /\ DOMAIN model' = DOMAIN model \cup {pos}
             /\ model'[pos] = EmptyOut
             /\ \A d \in DOMAIN model : d # pos => model'[d] = model[d] ]_vars

\* C5 witness: the run returned; the first dataset keeps its .xml files in
\* a folder named labels and got two empty directories, the second was
\* converted
C5_Witness ==
    /\ cpc = "done"
    /\ voc[1] = NoAnnotationFolder
    /\ voc[2] = Full(2)
    /\ model[1] = EmptyOut
    /\ DOMAIN model[2].train \cup DOMAIN model[2].val # {}

\* C10: after any number of runs over the same input tree into the same
\* model root, whatever the layout of the annotation files, no image file
\* name is present in both the train and the val directory of a dataset.
C10_TrainValDisjoint ==
    \A d \in DOMAIN model :
        \A f \in DOMAIN model[d].train \cap DOMAIN model[d].val : f[2] = ".txt"

=============================================================================
